---- MODULE Spec2Model ----
(***************************************************************************)
(* Verification model of the `unsafer` crate: SharedBox (shared_box.rs),   *)
(* assume / OptionAssume (assume.rs) and Pointer / Bind (pointers.rs).     *)
(* The three components are independent; each has its own specification    *)
(* over the common variable tuple.                                         *)
(***************************************************************************)
EXTENDS Integers, Sequences, FiniteSets, Bags, TLC

(* ------------------------------ bounds --------------------------------- *)
\* number of heap addresses the host allocator hands out
NumAddr == 2
\* number of `let s = Box::new(v)` lifecycles of one run
MaxBoxes == 1
\* largest initial value of a boxed integer
MaxVal == 1
\* increments made through one Increment handle
MaxIncs == 2

NULL == 0
None == <<>>
\* the value () and a variable that has not been assigned
Unit == <<>>
Unset == <<>>
Addr == 1..NumAddr
Slots == 1..MaxBoxes
Val == 0..MaxVal
Handles == {"a", "b"}

\* memory cells the raw pointers of pointers.rs may address
NumCells == 2
\* references that may be live at the same time
MaxRefs == 2
\* Bind guards of one scope
NumGuards == 1
Cells == 1..NumCells
Guards == 1..NumGuards
\* the values of tests.rs bind_test: `let mut a = 0; let mut b = 10;`
CellVals == {0, 10}
\* no write address has been asked for yet
NOADDR == -1
\* as_mut_ptr did not return: panic!()
PANIC == 0
\* the closure given to write_with panics
FPANIC == -2

VARIABLES
    heap,   \* host allocator: address -> [live, val]
    slot,   \* the owner variable `s` of each lifecycle
    incr,   \* the Increment structs of tests.rs: raw pointer `ctr`
    ub,     \* undefined behaviour has been executed
    debug,  \* cfg!(debug_assertions): the checked build configuration
    afn,    \* assume.rs: the function being called
    apc,    \* assume.rs: position inside the call
    aarg,   \* assume.rs: the argument (predicate parameter or Option)
    af,     \* assume.rs: `let f = predicate()`
    evals,  \* number of evaluations of the predicate in this call
    aret,   \* value returned by the call
    v,      \* the caller's Vec
    second, \* the caller's `let second = v[2]`
    a,      \* the caller's `let a = *dict.get(..).assume_some()`
    venter, \* the caller's Vec as it was when the call was made
    after,  \* the code following the call has been executed
    ncalls, \* calls made so far
    mem,    \* pointers.rs: the memory cells the raw pointers address
    refs,   \* bag of the references obtained from Bind guards that are still live
    ppc,    \* pointers.rs: "idle", or "panicked" once a panic unwinds
    cur     \* the write address the last operation asked for, and what it got

sbVars == <<heap, slot, incr>>
asVars == <<afn, apc, aarg, af, evals, aret, v, second, a, venter, after, ncalls>>
ptVars == <<mem, refs, ppc, cur>>
vars == <<sbVars, ub, debug, asVars, ptVars>>

\* no call of assume.rs in progress
AssumeIdle ==
    /\ afn = "none" /\ apc = "idle" /\ aarg = None /\ af = FALSE
    /\ evals = 0 /\ aret = Unit /\ v = <<1, 4, 7, 9>>
    /\ second = Unset /\ a = Unset /\ venter = v /\ after = FALSE /\ ncalls = 0

\* no Box has been created
SharedBoxIdle ==
    /\ heap = [p \in Addr |-> [live |-> FALSE, val |-> 0]]
    /\ slot = [s \in Slots |-> [kind |-> "unused", ptr |-> NULL, addr0 |-> NULL,
                                v0 |-> 0, freed |-> 0, rt |-> FALSE, by |-> "none"]]
    /\ incr = [h \in Handles |-> [ctr |-> NULL, src |-> 0, n |-> 0]]

\* no reference is live and no write address has been asked for
NoCall == [op |-> "none", kind |-> "none", addr |-> 0, other |-> 0, result |-> NOADDR,
           fEvals |-> 0, fval |-> 0, mem0 |-> [c \in Cells |-> 0], refs0 |-> EmptyBag]
PointersIdle ==
    /\ refs = EmptyBag
    /\ ppc = "idle"
    /\ cur = NoCall

(* ------------------------- shared_box.rs ------------------------------- *)
\* Box::new(x): the host allocator picks any address that is not in use.
\* The lifecycles of a run are started in the order of their slots.
BoxNew(s, x, p) ==
    /\ slot[s].kind = "unused"
    /\ \A t \in Slots : t < s => slot[t].kind # "unused"
    /\ ~heap[p].live
    /\ heap' = [heap EXCEPT ![p] = [live |-> TRUE, val |-> x]]
    /\ slot' = [slot EXCEPT ![s] = [kind |-> "box", ptr |-> p, addr0 |-> p,
                                    v0 |-> x, freed |-> 0, rt |-> FALSE, by |-> "none"]]
    /\ UNCHANGED <<incr, ub, debug, asVars, ptVars>>

\* The deallocation done when a Box<T> goes out of scope: the allocation
\* behind `p` is returned to the allocator; freeing memory that is not
\* allocated is undefined behaviour.
DropOfBox(s, p, owner) ==
    /\ heap' = [heap EXCEPT ![p] = [live |-> FALSE, val |-> 0]]
    /\ ub' = (ub \/ ~heap[p].live)
    /\ slot' = [slot EXCEPT ![s] = [kind |-> "gone", ptr |-> NULL, addr0 |-> NULL, v0 |-> 0,
                                    freed |-> slot[s].freed + 1, rt |-> slot[s].rt,
                                    by |-> owner]]

\* impl From<Box<T>> for SharedBox<T>: data = Box::into_raw(x)
\* (variant: the pointer stored is not the one Box::into_raw returned)
SharedBox_data_bad(x) == IF x.ptr = NumAddr THEN 1 ELSE x.ptr + 1
SharedBox_data(x) == x.ptr

SharedBox_from(s) ==
    /\ slot[s].kind = "box"
    /\ ~slot[s].rt
    /\ slot' = [slot EXCEPT ![s].kind = "shared", ![s].ptr = SharedBox_data(slot[s])]
    /\ UNCHANGED <<heap, incr, ub, debug, asVars, ptVars>>

\* SharedBox::as_ptr: self.data.as_ptr() as *const T
\* (variant: an address other than self.data is returned)
SharedBox_as_ptr_bad(self) == (self.ptr % NumAddr) + 1
SharedBox_as_ptr(self) == self.ptr

\* let mut a = Increment { ctr : s.as_ptr() as *mut i32 };
\* let mut b = Increment { ctr : s.as_ptr() as *mut i32 };   (a before b)
NewIncrement(h, s) ==
    /\ slot[s].kind = "shared"
    /\ incr[h].ctr = NULL
    /\ h = "b" => incr["a"].ctr # NULL
    /\ incr' = [incr EXCEPT ![h] = [ctr |-> SharedBox_as_ptr(slot[s]), src |-> s, n |-> 0]]
    /\ UNCHANGED <<heap, slot, ub, debug, asVars, ptVars>>

\* Increment::inc: *self.ctr += 1 (the i32 stays far from overflow within
\* MaxVal and MaxIncs).  The pointer is usable only while the
\* SharedBox it came from is alive; any other use is undefined behaviour,
\* whose outcome on the addressed memory is arbitrary (the content of memory
\* that is not allocated is not tracked).
Increment_inc(h) ==
    /\ incr[h].ctr # NULL
    /\ incr[h].n < MaxIncs
    /\ incr' = [incr EXCEPT ![h].n = @ + 1]
    /\ IF slot[incr[h].src].kind = "shared"
       THEN /\ heap' = [heap EXCEPT ![incr[h].ctr].val = @ + 1]
            /\ ub' = ub
       ELSE /\ \E w \in Val :
                 heap' = [heap EXCEPT ![incr[h].ctr].val = IF heap[incr[h].ctr].live
                                                           THEN w ELSE 0]
            /\ ub' = TRUE
    /\ UNCHANGED <<slot, debug, asVars, ptVars>>

\* SharedBox::into_box: r = Box::from_raw(self.data); forget(self); r
\* (variant without forget(self): the destructor of self runs when into_box
\* returns and frees the allocation the returned Box points to)
SharedBox_into_box_no_forget(s) ==
    /\ slot[s].kind = "shared"
    /\ heap' = [heap EXCEPT ![slot[s].ptr] = [live |-> FALSE, val |-> 0]]
    /\ slot' = [slot EXCEPT ![s].kind = "box", ![s].rt = TRUE, ![s].freed = @ + 1]
    /\ UNCHANGED <<incr, ub, debug, asVars, ptVars>>

SharedBox_into_box(s) ==
    /\ slot[s].kind = "shared"
    /\ slot' = [slot EXCEPT ![s].kind = "box", ![s].rt = TRUE]
    /\ UNCHANGED <<heap, incr, ub, debug, asVars, ptVars>>

\* impl Drop for SharedBox: Box::from_raw(self.data) is built and dropped
SharedBox_drop(s) ==
    /\ slot[s].kind = "shared"
    /\ DropOfBox(s, slot[s].ptr, "SharedBox")
    /\ UNCHANGED <<incr, debug, asVars, ptVars>>

\* the Box (the original one or the one returned by into_box) leaves scope
Box_drop(s) ==
    /\ slot[s].kind = "box"
    /\ DropOfBox(s, slot[s].ptr, "Box")
    /\ UNCHANGED <<incr, debug, asVars, ptVars>>

InitSharedBox ==
    /\ SharedBoxIdle
    /\ ub = FALSE
    /\ debug = FALSE
    /\ AssumeIdle
    /\ mem = [c \in Cells |-> 0]
    /\ PointersIdle

NextSharedBox ==
    \/ \E s \in Slots, x \in Val, p \in Addr : BoxNew(s, x, p)
    \/ \E s \in Slots : SharedBox_from(s)
    \/ \E h \in Handles, s \in Slots : NewIncrement(h, s)
    \/ \E h \in Handles : Increment_inc(h)
    \/ \E s \in Slots : SharedBox_into_box(s)
    \/ \E s \in Slots : SharedBox_drop(s)
    \/ \E s \in Slots : Box_drop(s)

SpecSharedBox == InitSharedBox /\ [][NextSharedBox]_vars

(* ----------------------------- assume.rs ------------------------------- *)
\* calls of one run
MaxCalls == 2

Some(x) == <<x>>
is_some(o) == o # None
is_none(o) == o = None

\* tests.rs: the vectors the caller may hold, and the dictionary
Vecs == {<<1, 4, 7, 9>>, <<1, 4, 7>>, <<7, 9>>}
Lens == 2..4
Keys == {"first", "second", "third", "fourth", "thidr"}
dict == [k \in Keys \ {"thidr"} |->
            CASE k = "first" -> 64 [] k = "second" -> 93
              [] k = "third" -> 1256 [] k = "fourth" -> 5483]
dict_get(k) == IF k \in DOMAIN dict THEN Some(dict[k]) ELSE None
Rets == {Unit} \cup {<<x>> : x \in {64, 93, 1256, 5483}}


\* the closure of tests.rs: || v.len() == k
predicate(vec, k) == Len(vec) = k

\* unsafe { assume(|| v.len() == k); }
CallAssume(vec, k) ==
    /\ apc = "idle" /\ ncalls < MaxCalls
    /\ v' = vec /\ venter' = vec /\ afn' = "assume" /\ aarg' = <<k>> /\ apc' = "start"
    /\ evals' = 0 /\ af' = FALSE /\ aret' = Unit /\ after' = FALSE
    /\ ncalls' = ncalls + 1
    /\ UNCHANGED <<second, a, ub, debug, sbVars, ptVars>>

\* let f = predicate();
assume_eval ==
    /\ afn = "assume" /\ apc = "start"
    /\ af' = predicate(v, aarg[1])
    /\ evals' = evals + 1
    /\ apc' = "debug_assert"
    /\ UNCHANGED <<afn, aarg, aret, v, second, a, venter, after, ncalls, ub, debug, sbVars, ptVars>>

\* debug_assert!(f);
\* (variant: the assertion is compiled out of the checked build too)
assume_debug_assert_skipped ==
    /\ afn = "assume" /\ apc = "debug_assert"
    /\ apc' = "branch"
    /\ UNCHANGED <<afn, aarg, af, evals, aret, v, second, a, venter, after, ncalls, ub, debug, sbVars, ptVars>>

assume_debug_assert ==
    /\ afn = "assume" /\ apc = "debug_assert"
    /\ apc' = IF debug /\ ~af THEN "panicked" ELSE "branch"
    /\ UNCHANGED <<afn, aarg, af, evals, aret, v, second, a, venter, after, ncalls, ub, debug, sbVars, ptVars>>

\* if !f { unreachable_unchecked() }
\* (variant: `if !predicate()` calls the predicate a second time)
assume_branch_reevaluates ==
    /\ afn = "assume" /\ apc = "branch"
    /\ evals' = evals + 1
    /\ apc' = IF ~predicate(v, aarg[1]) THEN "unreachable" ELSE "returned"
    /\ UNCHANGED <<afn, aarg, af, aret, v, second, a, venter, after, ncalls, ub, debug, sbVars, ptVars>>

assume_branch ==
    /\ afn = "assume" /\ apc = "branch"
    /\ apc' = IF ~af THEN "unreachable" ELSE "returned"
    /\ UNCHANGED <<afn, aarg, af, evals, aret, v, second, a, venter, after, ncalls, ub, debug, sbVars, ptVars>>

\* core::hint::unreachable_unchecked(): undefined behaviour; the build may
\* return (with any value), abort, and leave the caller's data in any state.
unreachable_unchecked ==
    /\ apc = "unreachable"
    /\ ub' = TRUE
    /\ apc' \in {"returned", "panicked"}
    /\ aret' \in Rets
    /\ v' \in Vecs
    /\ UNCHANGED <<afn, aarg, af, evals, second, a, venter, after, ncalls, debug, sbVars, ptVars>>

\* unsafe { dict.get(key).assume_some() } / .assume_none()
CallOption(fn, key) ==
    /\ apc = "idle" /\ ncalls < MaxCalls
    /\ afn' = fn /\ aarg' = dict_get(key) /\ apc' = "start" /\ venter' = v
    /\ evals' = 0 /\ af' = FALSE /\ aret' = Unit /\ after' = FALSE
    /\ ncalls' = ncalls + 1
    /\ UNCHANGED <<v, second, a, ub, debug, sbVars, ptVars>>

\* debug_assert!(self.is_some());
\* (variant: the assertion of assume_none, debug_assert!(self.is_none()))
assume_some_debug_assert_is_none ==
    /\ afn = "assume_some" /\ apc = "start"
    /\ apc' = IF debug /\ ~is_none(aarg) THEN "panicked" ELSE "branch"
    /\ UNCHANGED <<afn, aarg, af, evals, aret, v, second, a, venter, after, ncalls, ub, debug, sbVars, ptVars>>

assume_some_debug_assert ==
    /\ afn = "assume_some" /\ apc = "start"
    /\ apc' = IF debug /\ ~is_some(aarg) THEN "panicked" ELSE "branch"
    /\ UNCHANGED <<afn, aarg, af, evals, aret, v, second, a, venter, after, ncalls, ub, debug, sbVars, ptVars>>

\* match self { Some(this) => this, None => unreachable_unchecked() }
assume_some_match ==
    /\ afn = "assume_some" /\ apc = "branch"
    /\ IF is_some(aarg)
       THEN apc' = "returned" /\ aret' = <<aarg[1]>>
       ELSE apc' = "unreachable" /\ aret' = aret
    /\ UNCHANGED <<afn, aarg, af, evals, v, second, a, venter, after, ncalls, ub, debug, sbVars, ptVars>>

\* debug_assert!(self.is_none());
assume_none_debug_assert ==
    /\ afn = "assume_none" /\ apc = "start"
    /\ apc' = IF debug /\ ~is_none(aarg) THEN "panicked" ELSE "branch"
    /\ UNCHANGED <<afn, aarg, af, evals, aret, v, second, a, venter, after, ncalls, ub, debug, sbVars, ptVars>>

\* match self { Some(_) => unreachable_unchecked(), None => () }
assume_none_match ==
    /\ afn = "assume_none" /\ apc = "branch"
    /\ apc' = IF is_some(aarg) THEN "unreachable" ELSE "returned"
    /\ UNCHANGED <<afn, aarg, af, evals, aret, v, second, a, venter, after, ncalls, ub, debug, sbVars, ptVars>>

\* the code after the call: `let second = v[2];` resp. `let a = ...;`
\* (indexing out of bounds panics)
Continue ==
    /\ apc = "returned"
    /\ after' = TRUE
    /\ IF afn = "assume"
       THEN /\ apc' = IF Len(v) >= 3 THEN "idle" ELSE "panicked"
            /\ second' = IF Len(v) >= 3 THEN <<v[3]>> ELSE second
            /\ a' = a
       ELSE /\ apc' = "idle"
            /\ a' = IF afn = "assume_some" THEN aret ELSE a
            /\ second' = second
    /\ UNCHANGED <<afn, aarg, af, evals, aret, v, venter, ncalls, ub, debug, sbVars, ptVars>>

InitAssume ==
    /\ SharedBoxIdle
    /\ ub = FALSE
    /\ debug \in BOOLEAN
    /\ AssumeIdle
    /\ mem = [c \in Cells |-> 0]
    /\ PointersIdle

NextAssume ==
    \/ \E vec \in Vecs, k \in Lens : CallAssume(vec, k)
    \/ assume_eval
    \/ assume_debug_assert
    \/ assume_branch
    \/ unreachable_unchecked
    \/ \E fn \in {"assume_some", "assume_none"}, key \in Keys : CallOption(fn, key)
    \/ assume_some_debug_assert
    \/ assume_some_match
    \/ assume_none_debug_assert
    \/ assume_none_match
    \/ Continue

SpecAssume == InitAssume /\ [][NextAssume]_vars

(* ---------------------------- pointers.rs ------------------------------ *)
\* the implementors of Pointer<T>
Kinds == {"mut_ptr", "const_ptr", "NonNull", "ref_MaybeUninit", "mut_MaybeUninit"}
Views == [kind : Kinds, addr : Cells]

\* Pointer::as_ptr of the five impls: every one returns the viewed address
Pointer_as_ptr(view) == view.addr

\* Pointer::as_mut_ptr of the five impls: &MaybeUninit<T> panics, the
\* others return (or cast) the viewed address
\* (variant: the &MaybeUninit<T> impl casts as the other impls do)
Pointer_as_mut_ptr_cast_all(view) == view.addr
\* (variant: the &MaybeUninit<T> impl panics in the checked build only)
Pointer_as_mut_ptr_debug_only(view) ==
    IF view.kind = "ref_MaybeUninit" /\ debug THEN PANIC ELSE view.addr
Pointer_as_mut_ptr(view) ==
    IF view.kind = "ref_MaybeUninit" THEN PANIC ELSE view.addr

\* a reference bound to guard g, to len cells from base on
Ref(g, base, len, isMut) == [g |-> g, base |-> base, len |-> len, mut |-> isMut]
Live == BagToSet(refs)

\* The safety contract of the unsafe functions ("every invariant for
\* dereferencing a raw pointer applies"): the caller lets no reference
\* overlap a live one when either is mutable, and keeps slices inside the
\* addressed memory.
NoAlias(base, len, isMut) ==
    \A r \in Live :
        (r.base < base + len /\ base < r.base + r.len) => (~r.mut /\ ~isMut)
InBounds(base, len) == base + len - 1 <= NumCells

\* the borrow of `self` taken by a method: `&self` needs no live mutable
\* borrow of the guard, `&mut self` needs no live borrow of it at all
BorrowShared(g) == \A r \in Live : r.g = g => ~r.mut
BorrowMut(g) == \A r \in Live : r.g # g

\* what a call that asked for a write address got, with the memory and the
\* live references as they were when it was made
MutCall(op, view, p, fe) ==
    [op |-> op, kind |-> view.kind, addr |-> view.addr, other |-> 0, result |-> p,
     fEvals |-> fe, fval |-> 0, mem0 |-> mem, refs0 |-> refs]

\* Bind::get(&self, ptr) -> &T : &*(ptr.as_ptr())
Bind_get(g, view) ==
    /\ ppc = "idle" /\ BagCardinality(refs) < MaxRefs
    /\ BorrowShared(g)
    /\ LET p == Pointer_as_ptr(view) IN
        /\ NoAlias(p, 1, FALSE)
        /\ refs' = refs (+) SetToBag({Ref(g, p, 1, FALSE)})
    /\ UNCHANGED <<mem, ppc, ub, debug, sbVars, asVars>>
    /\ cur' = NoCall

\* Bind::get_mut(&mut self, ptr) -> &mut T : &mut *(ptr.as_mut_ptr())
Bind_get_mut(g, view) ==
    /\ ppc = "idle" /\ BagCardinality(refs) < MaxRefs
    /\ BorrowMut(g)
    /\ LET p == Pointer_as_mut_ptr(view) IN
        /\ cur' = MutCall("get_mut", view, p, 0)
        /\ IF p = PANIC
           THEN ppc' = "panicked" /\ refs' = refs
           ELSE /\ NoAlias(p, 1, TRUE)
                /\ refs' = refs (+) SetToBag({Ref(g, p, 1, TRUE)})
                /\ ppc' = ppc
    /\ UNCHANGED <<mem, ub, debug, sbVars, asVars>>

\* Bind::slice(&self, ptr, len) -> &[T] : slice::from_raw_parts(ptr.as_ptr(), len)
Bind_slice(g, view, len) ==
    /\ ppc = "idle" /\ BagCardinality(refs) < MaxRefs
    /\ BorrowShared(g)
    /\ LET p == Pointer_as_ptr(view) IN
        /\ NoAlias(p, len, FALSE) /\ InBounds(p, len)
        /\ refs' = refs (+) SetToBag({Ref(g, p, len, FALSE)})
    /\ UNCHANGED <<mem, ppc, ub, debug, sbVars, asVars>>
    /\ cur' = NoCall

\* Bind::slice_mut(&mut self, ptr, len) -> &mut [T] :
\* slice::from_raw_parts_mut(ptr.as_mut_ptr(), len)
Bind_slice_mut(g, view, len) ==
    /\ ppc = "idle" /\ BagCardinality(refs) < MaxRefs
    /\ BorrowMut(g)
    /\ LET p == Pointer_as_mut_ptr(view) IN
        /\ cur' = MutCall("slice_mut", view, p, 0)
        /\ IF p = PANIC
           THEN ppc' = "panicked" /\ refs' = refs
           ELSE /\ NoAlias(p, len, TRUE) /\ InBounds(p, len)
                /\ refs' = refs (+) SetToBag({Ref(g, p, len, TRUE)})
                /\ ppc' = ppc
    /\ UNCHANGED <<mem, ub, debug, sbVars, asVars>>

\* the lifetime of a reference bound to a guard ends
EndRef(r) ==
    /\ ppc = "idle" /\ r \in Live
    /\ refs' = refs (-) SetToBag({r})
    /\ UNCHANGED <<mem, ppc, ub, debug, sbVars, asVars>>
    /\ cur' = NoCall

\* `*r = w` through a live mutable reference or an element of a mutable slice
WriteRef(r, off, w) ==
    /\ ppc = "idle" /\ r \in Live /\ r.mut
    /\ off < r.len
    /\ mem' = [mem EXCEPT ![r.base + off] = w]
    /\ UNCHANGED <<refs, ppc, ub, debug, sbVars, asVars>>
    /\ cur' = NoCall

\* Pointer::write_with(&mut self, f) : self.as_mut_ptr().write(f())
\* The receiver is evaluated before the argument, so as_mut_ptr runs before
\* f; f may panic, and then nothing is written.
write_with(view, fv) ==
    /\ ppc = "idle"
    /\ LET p == Pointer_as_mut_ptr(view) IN
          IF p = PANIC
          THEN /\ cur' = [MutCall("write_with", view, p, 0) EXCEPT !.fval = fv]
               /\ ppc' = "panicked"
               /\ mem' = mem
          ELSE IF fv = FPANIC
          THEN /\ cur' = [MutCall("write_with", view, p, 1) EXCEPT !.fval = fv]
               /\ ppc' = "panicked"
               /\ mem' = mem
          ELSE /\ NoAlias(p, 1, TRUE)
               /\ cur' = [MutCall("write_with", view, p, 1) EXCEPT !.fval = fv]
               /\ mem' = [mem EXCEPT ![p] = fv]
               /\ ppc' = ppc
    /\ UNCHANGED <<refs, ub, debug, sbVars, asVars>>

\* tests.rs swap_ptr(a, b), with its own `let mut bind = Bind::new()`:
\*   let temp = *bind.get(a);
\*   *bind.get_mut(a) = *bind.get(b);
\*   *bind.get_mut(b) = temp;
\* every reference ends within its statement
\* (variant: *a is read back after it was overwritten, no temp)
swap_ptr_no_temp(pa, pb) ==
    /\ ppc = "idle"
    /\ NoAlias(pa, 1, TRUE) /\ NoAlias(pb, 1, TRUE)
    /\ LET va == [kind |-> "mut_ptr", addr |-> pa]
           vb == [kind |-> "mut_ptr", addr |-> pb]
           m1 == [mem EXCEPT ![Pointer_as_mut_ptr(va)] = mem[Pointer_as_ptr(vb)]]
           m2 == [m1 EXCEPT ![Pointer_as_mut_ptr(vb)] = m1[Pointer_as_ptr(va)]]
       IN /\ mem' = m2
          /\ cur' = [MutCall("swap_ptr", va, Pointer_as_mut_ptr(vb), 0) EXCEPT !.other = pb]
    /\ UNCHANGED <<refs, ppc, ub, debug, sbVars, asVars>>

swap_ptr(pa, pb) ==
    /\ ppc = "idle"
    /\ NoAlias(pa, 1, TRUE) /\ NoAlias(pb, 1, TRUE)
    /\ LET va == [kind |-> "mut_ptr", addr |-> pa]
           vb == [kind |-> "mut_ptr", addr |-> pb]
           temp == mem[Pointer_as_ptr(va)]
           m1 == [mem EXCEPT ![Pointer_as_mut_ptr(va)] = mem[Pointer_as_ptr(vb)]]
           m2 == [m1 EXCEPT ![Pointer_as_mut_ptr(vb)] = temp]
       IN /\ mem' = m2
          /\ cur' = [MutCall("swap_ptr", va, Pointer_as_mut_ptr(vb), 0) EXCEPT !.other = pb]
    /\ UNCHANGED <<refs, ppc, ub, debug, sbVars, asVars>>

\* every reference that can be bound to a guard
AllRefs == {Ref(g, b, l, m) : g \in Guards, b \in Cells, l \in 1..NumCells, m \in BOOLEAN}

InitPointers ==
    /\ SharedBoxIdle
    /\ ub = FALSE
    /\ debug \in BOOLEAN
    /\ AssumeIdle
    /\ mem \in [Cells -> CellVals]
    /\ PointersIdle

NextPointers ==
    \/ \E g \in Guards, view \in Views : Bind_get(g, view)
    \/ \E g \in Guards, view \in Views : Bind_get_mut(g, view)
    \/ \E g \in Guards, view \in Views, len \in 1..NumCells : Bind_slice(g, view, len)
    \/ \E g \in Guards, view \in Views, len \in 1..NumCells : Bind_slice_mut(g, view, len)
    \/ \E r \in AllRefs : EndRef(r)
    \/ \E r \in AllRefs, off \in 0..(NumCells - 1), w \in CellVals : WriteRef(r, off, w)
    \/ \E view \in Views, fv \in CellVals \cup {FPANIC} : write_with(view, fv)
    \/ \E pa \in Cells, pb \in Cells : swap_ptr(pa, pb)

SpecPointers == InitPointers /\ [][NextPointers]_vars

(* ------------------------ properties: SharedBox ------------------------ *)
\* increments made through the handles obtained from the SharedBox of slot s
RECURSIVE IncsOf(_, _)
IncsOf(s, hs) ==
    IF hs = {} THEN 0
    ELSE LET h == CHOOSE k \in hs : TRUE
         IN (IF incr[h].src = s THEN incr[h].n ELSE 0) + IncsOf(s, hs \ {h})

\* C1: in every SharedBox lifecycle the allocation is freed exactly once:
\* while a Box or SharedBox owns it (in particular right after into_box) it
\* has not been freed and is still allocated, and once the owner (the
\* SharedBox, or the Box returned by into_box) has been dropped it has been
\* freed once - never zero times, never twice.
C1_FreedExactlyOnce ==
    \A s \in Slots :
        /\ slot[s].kind \in {"box", "shared"} =>
              slot[s].freed = 0 /\ heap[slot[s].ptr].live
        /\ slot[s].kind = "gone" => slot[s].freed = 1
        /\ \A t \in Slots :
              (t # s /\ slot[s].kind \in {"box", "shared"}
                     /\ slot[t].kind \in {"box", "shared"}) => slot[s].ptr # slot[t].ptr

C1_Witness ==
    \E s \in Slots :
        /\ slot[s].kind = "gone" /\ slot[s].rt /\ slot[s].by = "Box" /\ slot[s].freed = 1
        /\ \A p \in Addr : ~heap[p].live
        /\ incr["a"].src = s

\* C2: a Box converted to a SharedBox and back by into_box, with no write
\* through an alias in between, points to the allocation it started from and
\* holds the value it started with.
C2_RoundTrip ==
    \A s \in Slots :
        (slot[s].kind = "box" /\ slot[s].rt /\ ~ub /\ IncsOf(s, Handles) = 0) =>
            /\ slot[s].ptr = slot[s].addr0
            /\ heap[slot[s].ptr].live
            /\ heap[slot[s].ptr].val = slot[s].v0

C2_Witness ==
    \E s \in Slots :
        /\ slot[s].kind = "box" /\ slot[s].rt /\ ~ub /\ IncsOf(s, Handles) = 0
        /\ slot[s].v0 = MaxVal /\ heap[slot[s].ptr].val = MaxVal

\* C3: every address obtained from as_ptr is the address of the owned
\* allocation, and after i increments through one address and j through
\* another the allocation (also as seen through the Box returned by
\* into_box) holds the initial value plus i + j.
C3_SharedWrites ==
    /\ \A h \in Handles :
          (incr[h].ctr # NULL /\ slot[incr[h].src].kind # "gone") =>
              incr[h].ctr = slot[incr[h].src].addr0
    /\ \A s \in Slots :
          (~ub /\ (slot[s].kind = "shared" \/ (slot[s].kind = "box" /\ slot[s].rt))) =>
              heap[slot[s].addr0].val = slot[s].v0 + IncsOf(s, Handles)

C3_Witness ==
    \E s \in Slots :
        /\ ~ub /\ slot[s].kind = "box" /\ slot[s].rt
        /\ incr["a"].src = s /\ incr["b"].src = s
        /\ incr["a"].n >= 1 /\ incr["b"].n >= 1
        /\ heap[slot[s].ptr].val = slot[s].v0 + incr["a"].n + incr["b"].n

(* -------------------------- properties: assume ------------------------- *)
\* C4: in a checked build, assume with a predicate that returned false
\* stops at the assertion: it never reaches the unreachable hint, never
\* returns, and the code after the call does not run.
C4_DebugAssumeFalseAborts ==
    (debug /\ afn = "assume" /\ apc # "start" /\ ~af) =>
        /\ apc \in {"debug_assert", "panicked"}
        /\ ~after
        /\ ~ub

C4_Witness ==
    debug /\ afn = "assume" /\ apc = "panicked" /\ ~af /\ evals = 1 /\ ~after

\* C5: assume with a predicate that returns true evaluates the predicate
\* once, leaves the caller's state as it was, and returns so the caller goes
\* on: after assume(|| v.len() == 4) on [1,4,7,9], v[2] is 7.
C5_AssumeTrueNoEffect ==
    (afn = "assume" /\ apc # "start" /\ af) =>
        /\ evals = 1
        /\ v = venter
        /\ apc # "unreachable"
        /\ ~after => apc \in {"debug_assert", "branch", "returned"}
        /\ (after /\ venter = <<1, 4, 7, 9>>) => (apc = "idle" /\ second = <<7>>)

C5_Witness ==
    /\ ~debug /\ afn = "assume" /\ af /\ evals = 1 /\ after /\ apc = "idle"
    /\ v = <<1, 4, 7, 9>> /\ second = <<7>>

\* C6: assume_some(Some(x)) returns x and assume_none(None) returns, in
\* both builds; in a checked build assume_some(None) and
\* assume_none(Some(x)) stop at the assertion and return nothing.
C6_OptionAssume ==
    /\ (afn = "assume_some" /\ is_some(aarg)) =>
          /\ apc \in {"start", "branch", "returned", "idle"}
          /\ apc \in {"returned", "idle"} => aret = <<aarg[1]>>
          /\ after => a = <<aarg[1]>>
    /\ (afn = "assume_none" /\ is_none(aarg)) =>
          /\ apc \in {"start", "branch", "returned", "idle"}
          /\ aret = Unit
    /\ (debug /\ afn = "assume_some" /\ is_none(aarg)) =>
          (apc \in {"start", "panicked"} /\ ~after)
    /\ (debug /\ afn = "assume_none" /\ is_some(aarg)) =>
          (apc \in {"start", "panicked"} /\ ~after)

C6_Witness ==
    /\ afn = "assume_some" /\ aarg = Some(1256) /\ after /\ a = <<1256>>

(* ------------------------- properties: pointers ------------------------ *)
MutOps == {"get_mut", "slice_mut", "write_with"}
\* the references bound to guard g that are still live
RECURSIVE CountOf(_, _)
CountOf(g, rs) ==
    IF rs = {} THEN 0
    ELSE LET r == CHOOSE x \in rs : TRUE
         IN (IF r.g = g THEN CopiesIn(r, refs) ELSE 0) + CountOf(g, rs \ {r})

\* C7 (as claimed): for a view made from a raw constant pointer or from a
\* shared reference to uninitialised memory, a call that asks for the write
\* address gets none: as_mut_ptr returns no address, no reference is
\* produced and no memory is written.
C7_NoWriteAddressFromImmutable ==
    (cur.op \in MutOps /\ cur.kind \in {"const_ptr", "ref_MaybeUninit"}) =>
        /\ cur.result = PANIC
        /\ refs = cur.refs0
        /\ mem = cur.mem0

\* C7 (amended): for a view made from a shared reference to uninitialised
\* memory a call that asks for the write address gets none (no address, no
\* reference, no write); for a view made from a raw constant pointer
\* as_mut_ptr returns the pointer's own address, get_mut and slice_mut
\* produce a mutable reference to it and write_with writes to it.
C7_WriteAddressByKind ==
    /\ (cur.op \in MutOps /\ cur.kind = "ref_MaybeUninit") =>
          /\ cur.result = PANIC
          /\ refs = cur.refs0
          /\ mem = cur.mem0
    /\ (cur.op \in MutOps /\ cur.kind = "const_ptr") =>
          /\ cur.result = cur.addr
          /\ cur.op \in {"get_mut", "slice_mut"} =>
                \E r \in Live : /\ r.mut /\ r.base = cur.addr
                                /\ refs = cur.refs0 (+) SetToBag({r})
          /\ (cur.op = "write_with" /\ ppc = "idle") =>
                (mem[cur.addr] = cur.fval /\ \A c \in Cells \ {cur.addr} : mem[c] = cur.mem0[c])

C7_Witness ==
    /\ cur.op = "get_mut" /\ cur.kind = "const_ptr" /\ cur.result = cur.addr
    /\ \E r \in Live : r.mut /\ r.base = cur.addr

\* C8 (as claimed): at most one reference obtained from a given Bind is
\* live at any time.
C8_OneReferencePerGuard ==
    \A g \in Guards : CountOf(g, Live) <= 1

\* C9: swap_ptr(a, b) exchanges the values at a and b when the addresses
\* differ and leaves the value unchanged when a = b; no other cell changes.
C9_Swap ==
    cur.op = "swap_ptr" =>
        /\ mem[cur.addr] = cur.mem0[cur.other]
        /\ mem[cur.other] = cur.mem0[cur.addr]
        /\ \A c \in Cells \ {cur.addr, cur.other} : mem[c] = cur.mem0[c]
        /\ cur.addr = cur.other => mem = cur.mem0

C9_Witness ==
    /\ cur.op = "swap_ptr" /\ cur.addr = cur.other
    /\ mem[cur.addr] = 10 /\ cur.mem0[cur.addr] = 10

\* C10: on a view made from &MaybeUninit<T>, in the checked and in the
\* unchecked build alike, as_mut_ptr panics and returns no address: get_mut
\* and slice_mut produce no reference, and write_with panics before f is
\* evaluated and before anything is written.
C10_UninitRefPanics ==
    cur.kind = "ref_MaybeUninit" =>
        /\ ppc = "panicked"
        /\ cur.result = PANIC
        /\ cur.fEvals = 0
        /\ refs = cur.refs0
        /\ mem = cur.mem0

C10_Witness ==
    /\ ~debug /\ ppc = "panicked"
    /\ cur.op = "write_with" /\ cur.kind = "ref_MaybeUninit" /\ cur.fEvals = 0

====
